---- MODULE Spec2Model ----
(***************************************************************************)
(* examples/notebooks/20_Using_huggingface_within_widedeep.ipynb as a      *)
(* state machine: one action per notebook cell (and one per batch of the   *)
(* loops inside trainer.fit and trainer.predict_proba).                     *)
(*                                                                         *)
(* A dataframe is a record [columns, rows]; a row is a function from       *)
(* column names to values, plus "index" (the pandas index label).  A text  *)
(* is [isna, str] with str a sequence of one-character strings.            *)
(*                                                                         *)
(* The dataframes are explored row by row, so the state machine runs the   *)
(* cells with the notebook's sizes scaled down: SampleCap for 2369,        *)
(* SampleRows for 1000, BatchRows for 64 and MaxLength for 90.  The        *)
(* literals themselves (N_SAMPLE, BATCH_SIZE, MAX_LENGTH) are used where a *)
(* claim names a number, on the operators the actions are built from.      *)
(***************************************************************************)
EXTENDS Integers, Sequences, FiniteSets, TLC

\* ------------------------------------------------------------ literals
N_SAMPLE == 1000
BATCH_SIZE == 64
MAX_LENGTH == 90
PRED_DIM == 4
MIN_PIECES == 5
TRAIN_NUM == 8
TRAIN_DEN == 10
N_EPOCHS == 1

\* ------------------------------------------------------ scale of the run
SampleCap == 6
SampleRows == 10
BatchRows == 3
MaxLength == 4

\* ------------------------------------------------------------- helpers
Range(s) == {s[i] : i \in DOMAIN s}
Min(a, b) == IF a <= b THEN a ELSE b
Max(a, b) == IF a >= b THEN a ELSE b
CeilDiv(a, b) == (a + b - 1) \div b

RECURSIVE SumSeq(_)
SumSeq(s) == IF s = <<>> THEN 0 ELSE Head(s) + SumSeq(Tail(s))

\* the subsequence of s at the positions in keep, in s's order (boolean mask)
FilterSeq(s, keep) ==
    LET K == keep \cap DOMAIN s
        nth(j) == CHOOSE i \in K : Cardinality({x \in K : x < i}) = j - 1
    IN  [j \in 1..Cardinality(K) |-> s[nth(j)]]

\* --------------------------------------------------------------- texts
NaN == [isna |-> TRUE, str |-> <<>>]
Text(s) == [isna |-> FALSE, str |-> s]

\* Python str.split(sep) with an explicit one-character separator: the
\* pieces between separators, empty pieces kept ("".split(" ") == [""])
Split(s, sep) ==
    LET P == {i \in DOMAIN s : s[i] = sep}
        cut(j) == IF j = 0 THEN 0
                  ELSE IF j = Cardinality(P) + 1 THEN Len(s) + 1
                  ELSE CHOOSE i \in P : Cardinality({x \in P : x < i}) = j - 1
    IN  [j \in 1..(Cardinality(P) + 1) |-> SubSeq(s, cut(j - 1) + 1, cut(j) - 1)]

KeptTexts ==
    << Text(<<"a", " ", "b", " ", "a", " ", "b", " ", "a">>),
       Text(<<"a", " ", " ", " ", " ">>),
       Text(<<" ", " ", " ", " ">>),
       Text(<<"B", " ", "a", " ", " ", " ">>),
       Text(<<"a", "b", " ", "z", " ", "a", " ", " ", "b", " ", "a", " ", "b">>) >>

ShortTexts ==
    << Text(<<>>),
       Text(<<"a", " ", "b", " ", "a", " ", "b">>),
       Text(<<"a", " ", " ", "b">>) >>

\* ------------------------------------------------------------ datasets
RawColumns ==
    {"Clothing ID", "Age", "Title", "Review Text", "Rating", "Recommended IND",
     "Positive Feedback Count", "Division Name", "Department Name", "Class Name"}

RawRow(i, rating, text) ==
    [c \in RawColumns \cup {"index"} |->
        CASE c = "index" -> i
          [] c = "Clothing ID" -> 100 + i
          [] c = "Review Text" -> text
          [] c = "Rating" -> rating
          [] OTHER -> 0]

\* the loaded reviews: rating blocks <<rating, count>>, and where the reviews
\* without text and the short reviews lie among them (JunkKinds)
Inputs ==
    { << << <<5, SampleCap>>, <<4, SampleRows - SampleCap>> >>, 1 >>,
      << << <<5, SampleCap + 1>>, <<3, SampleRows - SampleCap>> >>, 0 >>,
      << << <<1, 2>>, <<2, SampleCap - 2>>, <<5, SampleRows - SampleCap + 1>> >>, 2 >>,
      << << <<3, 4>>, <<4, 4>>, <<5, 4>> >>, 1 >>,
      << << <<5, 3>> >>, 0 >>,
      << << <<5, 3>> >>, 1 >>,
      << << <<2, 1>>, <<4, 2>> >>, 2 >>,
      << << <<5, SampleCap>>, <<4, SampleRows - SampleCap - 1>>, <<3, 1>> >>, 2 >> }

RECURSIVE Ratings(_)
Ratings(shape) ==
    IF shape = <<>> THEN <<>>
    ELSE [i \in 1..Head(shape)[2] |-> Head(shape)[1]] \o Ratings(Tail(shape))

JunkKinds == 0..2

\* the raw dataframe: the shape's reviews, with reviews without text and
\* short reviews placed before, between and after them according to junk
Dataset(shape, junk) ==
    LET rs == Ratings(shape)
        good == [i \in DOMAIN rs |->
                    <<rs[i], KeptTexts[((i - 1) % Len(KeptTexts)) + 1]>>]
        one == <<3, NaN>>
        two == <<5, ShortTexts[((Len(rs)) % Len(ShortTexts)) + 1]>>
        half == Len(good) \div 2
        all == CASE junk = 0 -> good
                 [] junk = 1 -> <<one>> \o good \o <<two>>
                 [] OTHER -> <<two>> \o SubSeq(good, 1, half)
                             \o <<one, <<4, ShortTexts[2]>> >>
                             \o SubSeq(good, half + 1, Len(good))
                             \o << <<1, ShortTexts[1]>> >>
    IN  [columns |-> RawColumns,
         rows |-> [i \in DOMAIN all |-> RawRow(i - 1, all[i][1], all[i][2])]]

\* the exceptions the libraries raise
ATTRIBUTE_ERROR == "AttributeError: 'float' object has no attribute 'split'"
TEXT_INPUT_ERROR == "ValueError: text input must be of type str"
TARGET_ERROR == "IndexError: target is out of bounds"

EmptyFrame == [columns |-> {}, rows |-> <<>>]

VARIABLES pc, raised, raw, df, grouped, train, test,
          X_text_tr1, X_text_te1, X_text_tr2, X_text_te2, same0,
          model, trainer, preds_text, pred_text_class, acc_text

vars == <<pc, raised, raw, df, grouped, train, test,
          X_text_tr1, X_text_te1, X_text_tr2, X_text_te2, same0,
          model, trainer, preds_text, pred_text_class, acc_text>>

Init ==
    /\ pc = "loaded"
    /\ raised = "none"
    /\ \E input \in Inputs : raw = Dataset(input[1], input[2])
    /\ df = raw
    /\ grouped = EmptyFrame
    /\ train = EmptyFrame
    /\ test = EmptyFrame
    /\ X_text_tr1 = <<>>
    /\ X_text_te1 = <<>>
    /\ X_text_tr2 = <<>>
    /\ X_text_te2 = <<>>
    /\ same0 = "unset"
    /\ model = [pred_dim |-> 0]
    /\ trainer = [steps |-> 0]
    /\ preds_text = <<>>
    /\ pred_text_class = <<>>
    /\ acc_text = [correct |-> 0, total |-> 0]

\* ------------------------------------------------- cell 5: preprocessing
RenameColumn(c) ==
    CASE c = "Clothing ID" -> "clothing_id"
      [] c = "Age" -> "age"
      [] c = "Title" -> "title"
      [] c = "Review Text" -> "review_text"
      [] c = "Rating" -> "rating"
      [] c = "Recommended IND" -> "recommended_ind"
      [] c = "Positive Feedback Count" -> "positive_feedback_count"
      [] c = "Division Name" -> "division_name"
      [] c = "Department Name" -> "department_name"
      [] c = "Class Name" -> "class_name"
      [] OTHER -> c

\* the remapping without the step that groups ratings 1 and 2
RemapRating_NoGrouping(r) == (r - 1) - 1

\* the three assignments to df["rating"]
RemapRating(r) ==
    LET r1 == r - 1
        r2 == IF r1 = 0 THEN 1 ELSE r1
    IN  r2 - 1

PreprocessFrame(f) ==
    LET cols == {RenameColumn(c) : c \in f.columns}
        renamed(row) ==
            [c \in cols \cup {"index"} |->
                row[CHOOSE o \in DOMAIN row : RenameColumn(o) = c]]
    IN  [columns |-> cols,
         rows |-> [i \in DOMAIN f.rows |->
                     [renamed(f.rows[i]) EXCEPT !["rating"] = RemapRating(@)]]]

Preprocess ==
    /\ pc = "loaded"
    /\ df' = PreprocessFrame(df)
    /\ pc' = "preprocessed"
    /\ UNCHANGED <<raised, raw, grouped, train, test, X_text_tr1, X_text_te1, X_text_tr2, X_text_te2,
                   same0, model, trainer, preds_text, pred_text_class, acc_text>>

\* --------------------------------------------- cell 6: drop short reviews
\* df.col.tolist() / df.col.values
ToList(f, col) == [i \in DOMAIN f.rows |-> f.rows[i][col]]

HasNaN(f) == \E i \in DOMAIN f.rows : f.rows[i]["review_text"].isna

\* len(x.split()): runs of spaces count once and empty pieces are dropped
ReviewLength_Whitespace(x) ==
    LET pieces == Split(x.str, " ")
    IN  Cardinality({i \in DOMAIN pieces : pieces[i] # <<>>})

\* lambda x: len(x.split(" "))
ReviewLength(x) == Len(Split(x.str, " "))

\* the cell without its first line
DropNa_Missing(f) == f

\* df[~df.review_text.isna()]
DropNa(f) ==
    [columns |-> f.columns,
     rows |-> FilterSeq(f.rows,
                 {i \in DOMAIN f.rows : ~f.rows[i]["review_text"].isna})]

DropShortFrame(f) ==
    LET f1 == DropNa(f).rows
        f2 == [i \in DOMAIN f1 |->
                 [c \in DOMAIN f1[i] \cup {"review_length"} |->
                     IF c = "review_length"
                     THEN ReviewLength(f1[i]["review_text"])
                     ELSE f1[i][c]]]
        cols2 == f.columns \cup {"review_length"}
        long == {i \in DOMAIN f2 : f2[i]["review_length"] >= MIN_PIECES}
        f3 == FilterSeq(f2, long)
        cols4 == cols2 \ {"review_length"}
    IN  [columns |-> cols4,
         rows |-> [i \in DOMAIN f3 |->
                     [c \in cols4 \cup {"index"} |->
                         IF c = "index" THEN i - 1 ELSE f3[i][c]]]]

DropShortReviews ==
    /\ pc = "preprocessed"
    /\ IF HasNaN(DropNa(df))
       THEN /\ pc' = "error"
            /\ raised' = ATTRIBUTE_ERROR
            /\ df' = df
       ELSE /\ df' = DropShortFrame(df)
            /\ pc' = "cleaned"
            /\ raised' = raised
    /\ UNCHANGED <<raw, grouped, train, test, X_text_tr1, X_text_te1, X_text_tr2, X_text_te2,
                   same0, model, trainer, preds_text, pred_text_class, acc_text>>

\* ------------------------------------------------ cell 9: subsampling
Positions(f) == DOMAIN f.rows
ClassRows(f, c) == {i \in Positions(f) : f.rows[i]["rating"] = c}
Classes(f) == {f.rows[i]["rating"] : i \in Positions(f)}
ClassCount(f, c) == Cardinality(ClassRows(f, c))

RECURSIVE Ascending(_)
\* the elements of a finite set of integers, smallest first
Ascending(S) ==
    IF S = {} THEN <<>>
    ELSE LET m == CHOOSE x \in S : \A y \in S : x <= y
         IN  <<m>> \o Ascending(S \ {m})

Reverse(s) == [i \in DOMAIN s |-> s[Len(s) + 1 - i]]

\* DataFrame.sample, train_test_split and the training DataLoader return the
\* chosen rows in a random order.  Which rows are chosen is explored in
\* full; of the orders, the order of the frame and its reverse
Shuffles == {"keep", "reverse"}
Permute(s, shuffle) == IF shuffle = "keep" THEN s ELSE Reverse(s)
Take(f, S, shuffle) ==
    Permute([i \in 1..Cardinality(S) |-> f.rows[Ascending(S)[i]]], shuffle)

\* x.sample(n): n distinct rows of x; ValueError when n exceeds len(x)
SampleSets(S, n) == {T \in SUBSET S : Cardinality(T) = n}

\* groupby("rating", group_keys=False).apply(lambda x: x.sample(min(len(x), cap)))
GroupSamples(f, cap) ==
    {G \in SUBSET Positions(f) :
        \A c \in Classes(f) :
            Cardinality(G \cap ClassRows(f, c)) = Min(ClassCount(f, c), cap)}

\* the groups are concatenated in the order of the group keys
GroupedFrame(f, G) ==
    LET key(i) == f.rows[i]["rating"] * (Len(f.rows) + 1) + i
        keys == {key(i) : i \in G}
        ord == Ascending(keys)
    IN  [columns |-> f.columns,
         rows |-> [k \in 1..Len(ord) |-> f.rows[ord[k] % (Len(f.rows) + 1)]]]

Subsample ==
    /\ pc = "cleaned"
    /\ \E G \in GroupSamples(df, SampleCap) :
         /\ grouped' = GroupedFrame(df, G)
         /\ \/ /\ Len(grouped'.rows) >= SampleRows
               /\ \E S \in SampleSets(Positions(grouped'), SampleRows) :
                    \E shuffle \in Shuffles :
                       df' = [columns |-> df.columns,
                              rows |-> Take(grouped', S, shuffle)]
               /\ pc' = "sampled"
               /\ raised' = raised
            \/ /\ Len(grouped'.rows) < SampleRows
               /\ df' = df
               /\ pc' = "error"
               /\ raised' = "sample: larger sample than population"
    /\ UNCHANGED <<raw, train, test, X_text_tr1, X_text_te1, X_text_tr2, X_text_te2,
                   same0, model, trainer, preds_text, pred_text_class, acc_text>>

\* ------------------------------------------------ cell 10: train/test split
\* sklearn _approximate_mode(class_counts, n_draws): floor of the exact
\* shares, the draws left over going to the largest remainders (ties at random)
ApproximateModes(counts, n_draws) ==
    LET cs == DOMAIN counts
        RECURSIVE Total(_)
        Total(S) == IF S = {} THEN 0
                    ELSE LET c == CHOOSE x \in S : TRUE
                         IN  counts[c] + Total(S \ {c})
        total == Total(cs)
        floored(c) == (counts[c] * n_draws) \div total
        remainder(c) == (counts[c] * n_draws) % total
        RECURSIVE Sum(_, _)
        Sum(a, S) == IF S = {} THEN 0
                     ELSE LET c == CHOOSE x \in S : TRUE
                          IN  a[c] + Sum(a, S \ {c})
    IN  {a \in [cs -> 0..n_draws] :
            /\ \A c \in cs : a[c] \in {floored(c), floored(c) + 1}
            /\ Sum(a, cs) = n_draws
            /\ \A c, d \in cs :
                 (a[c] = floored(c) + 1 /\ a[d] = floored(d))
                     => remainder(c) >= remainder(d)}

\* train_size=0.8 with test_size=None: floor(0.8 n) rows, the rest is test
NTrain(n) == (TRAIN_NUM * n) \div TRAIN_DEN
NTest(n) == n - NTrain(n)

\* train_test_split without stratify: one stratum
StratifyLabels_None(f) == [i \in DOMAIN f.rows |-> 0]

\* stratify=df.rating
StratifyLabels(f) == ToList(f, "rating")

LabelRows(labels, c) == {i \in DOMAIN labels : labels[i] = c}

\* the ValueErrors of StratifiedShuffleSplit, in the order it checks them
SplitError(labels) ==
    LET n == Len(labels)
        cs == Range(labels)
    IN  IF \E c \in cs : Cardinality(LabelRows(labels, c)) < 2
        THEN "split: least populated class has 1 member"
        ELSE IF NTrain(n) < Cardinality(cs)
        THEN "split: train_size less than number of classes"
        ELSE IF NTest(n) < Cardinality(cs)
        THEN "split: test_size less than number of classes"
        ELSE "none"

\* the <<train, test>> position sets train_test_split can return: per class,
\* the train share of the class and then the test share of what is left
SplitSets(labels) ==
    LET n == Len(labels)
        cs == Range(labels)
        counts == [c \in cs |-> Cardinality(LabelRows(labels, c))]
        Draws(from, a) ==
            {T \in SUBSET from :
                \A c \in cs : Cardinality(T \cap LabelRows(labels, c)) = a[c]}
        TestSets(n_i, Tr) ==
            UNION { Draws(DOMAIN labels \ Tr, t_i) :
                      t_i \in ApproximateModes([c \in cs |-> counts[c] - n_i[c]],
                                               NTest(n)) }
        Pairs(n_i) ==
            UNION { { <<Tr, Te>> : Te \in TestSets(n_i, Tr) } :
                      Tr \in Draws(DOMAIN labels, n_i) }
    IN  UNION { Pairs(n_i) : n_i \in ApproximateModes(counts, NTrain(n)) }

TrainTestSplit ==
    /\ pc = "sampled"
    /\ LET labels == StratifyLabels(df)
       IN  \/ /\ SplitError(labels) = "none"
              /\ \E pair \in SplitSets(labels) :
                   \E shuffle \in Shuffles :
                      /\ train' = [columns |-> df.columns,
                                   rows |-> Take(df, pair[1], shuffle)]
                      /\ test' = [columns |-> df.columns,
                                  rows |-> Take(df, pair[2], shuffle)]
              /\ pc' = "split"
              /\ raised' = raised
           \/ /\ SplitError(labels) # "none"
              /\ raised' = SplitError(labels)
              /\ pc' = "error"
              /\ UNCHANGED <<train, test>>
    /\ UNCHANGED <<raw, df, grouped, X_text_tr1, X_text_te1, X_text_tr2, X_text_te2,
                   same0, model, trainer, preds_text, pred_text_class, acc_text>>

\* --------------------------------------------- cells 11-13: tokenization
model_name == "distilbert-base-uncased"

CLS == 101
SEP == 102
PAD == 0
UNK == 100

Lower(ch) == CASE ch = "A" -> "a" [] ch = "B" -> "b" [] OTHER -> ch

\* WordPiece over a two-letter vocabulary: the first piece of a word and its
\* continuation pieces ("##x") have different ids; a word with a character
\* outside the vocabulary is [UNK]
WordPiece(word) ==
    LET w == [i \in DOMAIN word |-> Lower(word[i])]
        first(ch) == IF ch = "a" THEN 1037 ELSE 1038
        cont(ch) == IF ch = "a" THEN 2050 ELSE 2497
    IN  IF \E i \in DOMAIN w : w[i] \notin {"a", "b"} THEN <<UNK>>
        ELSE [i \in DOMAIN w |-> IF i = 1 THEN first(w[i]) ELSE cont(w[i])]

RECURSIVE Flatten(_)
\* the concatenation of a sequence of sequences
Flatten(ss) ==
    IF ss = <<>> THEN <<>>
    ELSE IF Len(ss) = 1 THEN ss[1]
    ELSE LET h == Len(ss) \div 2
         IN  Flatten(SubSeq(ss, 1, h)) \o Flatten(SubSeq(ss, h + 1, Len(ss)))

\* whitespace pre-tokenisation: runs of spaces separate words
Tokenize(str) ==
    LET pieces == Split(str, " ")
        words == FilterSeq(pieces, {i \in DOMAIN pieces : pieces[i] # <<>>})
    IN  Flatten([i \in DOMAIN words |-> WordPiece(words[i])])

\* tokenizer.encode(text, max_length, padding, truncation, add_special_tokens)
EncodeText(str, params) ==
    LET toks == Tokenize(str)
        extra == IF params.add_special_tokens THEN 2 ELSE 0
        room == Max(params.max_length - extra, 0)
        cut == IF params.truncation /\ Len(toks) > room
               THEN SubSeq(toks, 1, room) ELSE toks
        ids == IF params.add_special_tokens
               THEN <<CLS>> \o cut \o <<SEP>> ELSE cut
    IN  IF params.padding = "max_length" /\ Len(ids) < params.max_length
        THEN ids \o [i \in 1..(params.max_length - Len(ids)) |-> PAD]
        ELSE ids

\* HFPreprocessor.encode(texts, **kwargs)
Encode(texts, kwargs) == [i \in DOMAIN texts |-> EncodeText(texts[i].str, kwargs)]

\* HFPreprocessor.fit_transform(df) and .transform(df) with text_col and
\* encode_params given to the constructor
Transform(tokenizer, f) ==
    [i \in DOMAIN f.rows |->
        EncodeText(f.rows[i][tokenizer.text_col].str, tokenizer.encode_params)]

encode_params_NoTruncation ==
    [max_length |-> MaxLength, padding |-> "max_length",
     truncation |-> FALSE, add_special_tokens |-> TRUE]

encode_params ==
    [max_length |-> MaxLength, padding |-> "max_length",
     truncation |-> TRUE, add_special_tokens |-> TRUE]

tokenizer1 ==
    [model_name |-> model_name, text_col |-> "review_text",
     encode_params |-> encode_params]

encode_kwargs_NoSpecialTokens ==
    [max_length |-> MaxLength, padding |-> "max_length",
     truncation |-> TRUE, add_special_tokens |-> FALSE]

encode_kwargs ==
    [max_length |-> MaxLength, padding |-> "max_length",
     truncation |-> TRUE, add_special_tokens |-> TRUE]

Tokenize1 ==
    /\ pc = "split"
    /\ IF HasNaN(train) \/ HasNaN(test)
       THEN /\ pc' = "error"
            /\ raised' = TEXT_INPUT_ERROR
            /\ UNCHANGED <<X_text_tr1, X_text_te1>>
       ELSE /\ X_text_tr1' = Transform(tokenizer1, train)
            /\ X_text_te1' = Transform(tokenizer1, test)
            /\ pc' = "tokenized1"
            /\ raised' = raised
    /\ UNCHANGED <<raw, df, grouped, train, test, X_text_tr2, X_text_te2,
                   same0, model, trainer, preds_text, pred_text_class, acc_text>>

Tokenize2 ==
    /\ pc = "tokenized1"
    /\ IF HasNaN(train) \/ HasNaN(test)
       THEN /\ pc' = "error"
            /\ raised' = TEXT_INPUT_ERROR
            /\ UNCHANGED <<X_text_tr2, X_text_te2>>
       ELSE /\ X_text_tr2' = Encode(ToList(train, "review_text"), encode_kwargs)
            /\ X_text_te2' = Encode(ToList(test, "review_text"), encode_kwargs)
            /\ pc' = "tokenized2"
            /\ raised' = raised
    /\ UNCHANGED <<raw, df, grouped, train, test, X_text_tr1, X_text_te1,
                   same0, model, trainer, preds_text, pred_text_class, acc_text>>

\* cell 13: all(X_text_tr1[0] == X_text_tr2[0])
CompareFirstRow ==
    /\ pc = "tokenized2"
    /\ same0' = IF X_text_tr1[1] = X_text_tr2[1] THEN "True" ELSE "False"
    /\ pc' = "compared"
    /\ UNCHANGED <<raised, raw, df, grouped, train, test, X_text_tr1, X_text_te1,
                   X_text_tr2, X_text_te2, model, trainer, preds_text,
                   pred_text_class, acc_text>>

\* ------------------------------------------------ cells 14-15: the model
HFParameters == {"embeddings", "transformer.layer.0", "transformer.layer.5"}

\* HFModel(model_name, trainable_parameters): the pretrained weights, with
\* requires_grad set only for the parameters named trainable
HFModel(name, trainable_parameters) ==
    [model_name |-> name,
     weights |-> [p \in HFParameters |-> 0],
     requires_grad |-> [p \in HFParameters |-> p \in trainable_parameters]]

hf_model_FineTuned == HFModel(model_name, {"transformer.layer.5"})

hf_model == HFModel(model_name, {})

\* WideDeep(deeptext, pred_dim): the text component and a prediction layer
WideDeep(deeptext, pred_dim) ==
    [deeptext |-> deeptext,
     pred_dim |-> pred_dim,
     pred_layer |-> [c \in 0..(pred_dim - 1) |-> 0]]

NewTrainer ==
    [metrics |-> {"acc", "f1"}, epoch |-> 0, order |-> <<>>, seen |-> <<>>,
     steps |-> 0, history |-> <<>>, batches |-> 0]

wide_deep_ThreeClasses == WideDeep(hf_model, PRED_DIM - 1)

\* model = WideDeep(deeptext=hf_model, pred_dim=4)
wide_deep == WideDeep(hf_model, PRED_DIM)

BuildModel ==
    /\ pc = "compared"
    /\ model' = wide_deep
    /\ trainer' = NewTrainer
    /\ pc' = "built"
    /\ UNCHANGED <<raised, raw, df, grouped, train, test, X_text_tr1, X_text_te1,
                   X_text_tr2, X_text_te2, same0, preds_text, pred_text_class,
                   acc_text>>

\* ------------------------------------------------------ trainer.fit
fit_args_TwoEpochs ==
    [X_text |-> X_text_tr2, target |-> ToList(train, "rating"),
     n_epochs |-> N_EPOCHS + 1, batch_size |-> BatchRows]

fit_args ==
    [X_text |-> X_text_tr2, target |-> ToList(train, "rating"),
     n_epochs |-> N_EPOCHS, batch_size |-> BatchRows]

\* DataLoader(batch_size, drop_last=False): the rows of the next batch, given
\* how many rows of the order were already served (the last batch may be
\* smaller than batch_size)
NextBatch(order, served, batch_size) ==
    SubSeq(order, served + 1, Min(served + batch_size, Len(order)))

RECURSIVE BatchesFrom(_, _, _)
\* all the batches of one pass over the order
BatchesFrom(order, served, batch_size) ==
    IF served >= Len(order) THEN <<>>
    ELSE LET batch == NextBatch(order, served, batch_size)
         IN  <<batch>> \o BatchesFrom(order, served + Len(batch), batch_size)

\* one optimizer step: every parameter that requires grad moves
OptimizerStep(m) ==
    [m EXCEPT !.pred_layer = [c \in DOMAIN @ |-> (@[c] + c + 1) % 5],
              !.deeptext.weights =
                  [p \in DOMAIN @ |->
                      IF m.deeptext.requires_grad[p] THEN @[p] + 1 ELSE @[p]]]

\* the start of fit: the first epoch's DataLoader order (shuffle=True)
FitBegin ==
    /\ pc = "built"
    /\ \E shuffle \in Shuffles :
         trainer' = [trainer EXCEPT
                       !.epoch = 1,
                       !.order = Permute([i \in DOMAIN fit_args.X_text |-> i],
                                         shuffle)]
    /\ pc' = "fitting"
    /\ UNCHANGED <<raised, raw, df, grouped, train, test, X_text_tr1, X_text_te1,
                   X_text_tr2, X_text_te2, same0, model, preds_text,
                   pred_text_class, acc_text>>

\* one batch of the epoch: batch_size rows of the order (the last batch may
\* be smaller), an optimizer step, and the progress report
TrainStep ==
    /\ pc = "fitting"
    /\ LET done == Len(trainer.seen)
           n == Len(trainer.order)
           batch == NextBatch(trainer.order, done, fit_args.batch_size)
           target == [i \in DOMAIN batch |-> fit_args.target[batch[i]]]
           report == [step |-> trainer.steps + 1, rows |-> Len(batch),
                      shown |-> {"loss"} \cup trainer.metrics]
           last == done + Len(batch) >= n
       IN  /\ IF \E i \in DOMAIN target : target[i] \notin 0..(model.pred_dim - 1)
              THEN /\ pc' = "error"
                   /\ raised' = TARGET_ERROR
                   /\ UNCHANGED <<model, trainer>>
              ELSE /\ model' = OptimizerStep(model)
                   /\ raised' = raised
                   /\ IF last /\ trainer.epoch < fit_args.n_epochs
                      THEN /\ \E shuffle \in Shuffles :
                              trainer' = [trainer EXCEPT
                                 !.epoch = @ + 1,
                                 !.order = Permute([i \in DOMAIN @ |-> i], shuffle),
                                 !.seen = <<>>,
                                 !.steps = @ + 1,
                                 !.history = Append(@, report)]
                           /\ pc' = pc
                      ELSE /\ trainer' = [trainer EXCEPT
                                 !.seen = @ \o batch,
                                 !.steps = @ + 1,
                                 !.history = Append(@, report)]
                           /\ pc' = IF last THEN "fitted" ELSE pc
    /\ UNCHANGED <<raw, df, grouped, train, test, X_text_tr1, X_text_te1,
                   X_text_tr2, X_text_te2, same0, preds_text, pred_text_class,
                   acc_text>>

\* -------------------------------------------- trainer.predict_proba
\* the forward pass on one row: a score per class
Forward(m, ids) ==
    [c \in 0..(m.pred_dim - 1) |->
        (SumSeq(ids) * (c + 1) + m.pred_layer[c] + m.deeptext.weights["embeddings"]) % 7]

PredictStep ==
    /\ pc = "fitted"
    /\ LET done == Len(preds_text)
           n == Len(X_text_te2)
           batch == NextBatch(X_text_te2, done, fit_args.batch_size)
           out == [i \in DOMAIN batch |-> Forward(model, batch[i])]
       IN  /\ preds_text' = preds_text \o out
           /\ trainer' = [trainer EXCEPT !.batches = @ + 1]
           /\ pc' = IF done + Len(batch) >= n THEN "predicted" ELSE pc
    /\ UNCHANGED <<raised, raw, df, grouped, train, test, X_text_tr1, X_text_te1,
                   X_text_tr2, X_text_te2, same0, model, pred_text_class,
                   acc_text>>

\* np.argmax(row): the first index of the largest score
ArgMax(row) ==
    CHOOSE c \in DOMAIN row :
        /\ \A d \in DOMAIN row : row[d] <= row[c]
        /\ \A d \in DOMAIN row : d < c => row[d] < row[c]

\* cell 17 after predict_proba: argmax and the metrics
Evaluate ==
    /\ pc = "predicted"
    /\ pred_text_class' = [i \in DOMAIN preds_text |-> ArgMax(preds_text[i])]
    /\ LET y_true == ToList(test, "rating")
       IN  IF Len(y_true) # Len(preds_text)
           THEN /\ pc' = "error"
                /\ raised' = "metrics: inconsistent numbers of samples"
                /\ acc_text' = acc_text
           ELSE /\ acc_text' =
                     [correct |-> Cardinality({i \in DOMAIN y_true :
                                     y_true[i] = pred_text_class'[i]}),
                      total |-> Len(y_true)]
                /\ pc' = "done"
                /\ raised' = raised
    /\ UNCHANGED <<raw, df, grouped, train, test, X_text_tr1, X_text_te1,
                   X_text_tr2, X_text_te2, same0, model, trainer, preds_text>>

Next ==
    \/ Preprocess
    \/ DropShortReviews
    \/ Subsample
    \/ TrainTestSplit
    \/ Tokenize1
    \/ Tokenize2
    \/ CompareFirstRow
    \/ BuildModel
    \/ FitBegin
    \/ TrainStep
    \/ PredictStep
    \/ Evaluate

Spec == Init /\ [][Next]_vars

\* ===================================================================
\* Properties
\* ===================================================================
Abs(x) == IF x < 0 THEN -x ELSE x
Ids(f) == {f.rows[i]["clothing_id"] : i \in DOMAIN f.rows}
NumSpaces(str) == Cardinality({i \in DOMAIN str : str[i] = " "})

\* the dataframe between cells 5 and 6, and between cells 6 and 9
Preprocessed == PreprocessFrame(raw)
Cleaned == DropShortFrame(Preprocessed)

ModelBuilt == model.pred_dim > 0
FitOver == pc \in {"fitted", "predicted", "done"}
PredictOver == pc \in {"predicted", "done"}

\* n words separated by single spaces
LongText(n) == [i \in 1..(IF n = 0 THEN 0 ELSE 2 * n - 1) |->
                   IF i % 2 = 1 THEN "a" ELSE " "]

\* what padding and truncation to width make of a token list
FixedLength(toks, width) ==
    IF Len(toks) + 2 <= width
    THEN <<CLS>> \o toks \o <<SEP>> \o [k \in 1..(width - Len(toks) - 2) |-> PAD]
    ELSE <<CLS>> \o SubSeq(toks, 1, width - 2) \o <<SEP>>

NinetyIds ==
    \A n \in {0, 1, MAX_LENGTH - 3, MAX_LENGTH - 2, MAX_LENGTH - 1, MAX_LENGTH + 30} :
        LET ids == EncodeText(LongText(n),
                              [encode_params EXCEPT !.max_length = MAX_LENGTH])
        IN  /\ Len(ids) = MAX_LENGTH
            /\ ids = FixedLength(Tokenize(LongText(n)), MAX_LENGTH)

\* the fixed-length ids of every review text of the inputs
ExpectedIds ==
    LET texts == KeptTexts \o ShortTexts
    IN  [k \in DOMAIN texts |-> FixedLength(Tokenize(texts[k].str), MaxLength)]

Expected(text) ==
    LET texts == KeptTexts \o ShortTexts
    IN  ExpectedIds[CHOOSE k \in DOMAIN texts : texts[k] = text]

RowsOf(X, f) ==
    /\ Len(X) = Len(f.rows)
    /\ \A i \in DOMAIN f.rows : X[i] = Expected(f.rows[i]["review_text"])

\* C2: every tokenized row has exactly max_length integer ids, shorter
\* reviews padded and longer ones truncated, one row per input text in the
\* order of the texts; with max_length=90 as well as at the scale of the run
C2_FixedLengthRows ==
    /\ \A X \in {X_text_tr1, X_text_te1, X_text_tr2, X_text_te2} :
          \A i \in DOMAIN X :
             /\ Len(X[i]) = MaxLength
             /\ \A k \in DOMAIN X[i] : X[i][k] \in Nat
    /\ Len(X_text_tr1) > 0 => RowsOf(X_text_tr1, train) /\ RowsOf(X_text_te1, test)
    /\ Len(X_text_tr2) > 0 => RowsOf(X_text_tr2, train) /\ RowsOf(X_text_te2, test)
    /\ NinetyIds

C2_Witness ==
    /\ pc = "tokenized2"
    /\ \E i \in DOMAIN X_text_tr1 :
          /\ Len(Tokenize(train.rows[i]["review_text"].str)) + 2 < MaxLength
          /\ X_text_tr1[i][MaxLength] = PAD
    /\ \E i \in DOMAIN X_text_tr2 :
          /\ Len(Tokenize(train.rows[i]["review_text"].str)) + 2 > MaxLength
          /\ X_text_tr2[i][MaxLength] = SEP
    /\ \E i \in DOMAIN X_text_te2 :
          Len(Tokenize(test.rows[i]["review_text"].str)) + 2 = MaxLength

C4_LabelRemapping ==
    pc = "preprocessed" =>
        /\ Len(df.rows) = Len(raw.rows)
        /\ \A i \in DOMAIN df.rows :
              LET r == raw.rows[i]["Rating"]
                  c == df.rows[i]["rating"]
              IN  /\ r \in {1, 2} => c = 0
                  /\ r \in 3..5 => c = r - 2
                  /\ c \in 0..(PRED_DIM - 1)
        /\ \A i, j \in DOMAIN df.rows :
              raw.rows[i]["Rating"] <= raw.rows[j]["Rating"]
                  => df.rows[i]["rating"] <= df.rows[j]["rating"]
        /\ {RemapRating(r) : r \in 1..5} = 0..(PRED_DIM - 1)

C4_Witness ==
    /\ pc = "preprocessed"
    /\ \E i, j, k \in DOMAIN raw.rows :
          /\ raw.rows[i]["Rating"] = 1
          /\ raw.rows[j]["Rating"] = 2
          /\ raw.rows[k]["Rating"] = 5
          /\ df.rows[i]["rating"] = df.rows[j]["rating"]

\* C5: after the per-class step every rating class has as many rows as the
\* smallest class of the cleaned dataframe, and the cell leaves exactly the
\* sample size of distinct rows of the cleaned dataframe
C5_ClassBalanced ==
    pc = "sampled" =>
        /\ \A c \in Classes(Cleaned) :
              /\ ClassCount(grouped, c) <= ClassCount(Cleaned, c)
              /\ \A d \in Classes(Cleaned) :
                    ClassCount(grouped, c) <= ClassCount(Cleaned, d)
              /\ \E d \in Classes(Cleaned) :
                    ClassCount(grouped, c) = ClassCount(Cleaned, d)
        /\ Len(df.rows) = SampleRows
        /\ Cardinality(Ids(df)) = SampleRows
        /\ \A i \in DOMAIN df.rows :
              \E j \in DOMAIN Cleaned.rows : df.rows[i] = Cleaned.rows[j]

\* the batches of 64 over the 800 training and the 200 test rows
ThirteenSteps ==
    LET n == NTrain(N_SAMPLE)
        steps == BatchesFrom([i \in 1..n |-> i], 0, BATCH_SIZE)
    IN  /\ Len(steps) = 13
        /\ Flatten(steps) = [i \in 1..n |-> i]

FourBatches ==
    Len(BatchesFrom([i \in 1..NTest(N_SAMPLE) |-> i], 0, BATCH_SIZE)) = 4

\* C6: fit runs one epoch of ceil(n / batch_size) steps, each training row
\* in exactly one of them and each step reported with loss, acc and f1;
\* predict_proba runs ceil(m / batch_size) batches and returns one row of
\* pred_dim scores per test row; 13 steps and 4 batches for 800 and 200 rows
C6_OneEpochOfBatches ==
    /\ pc = "fitting" =>
          /\ trainer.epoch = N_EPOCHS
          /\ trainer.steps < CeilDiv(Len(train.rows), BatchRows)
    /\ FitOver =>
          /\ trainer.epoch = N_EPOCHS
          /\ trainer.steps = CeilDiv(Len(train.rows), BatchRows)
          /\ Len(trainer.seen) = Len(train.rows)
          /\ Range(trainer.seen) = DOMAIN train.rows
          /\ Len(trainer.history) = trainer.steps
          /\ \A k \in DOMAIN trainer.history :
                /\ trainer.history[k].step = k
                /\ trainer.history[k].shown = {"loss", "acc", "f1"}
                /\ trainer.history[k].rows \in 1..BatchRows
    /\ PredictOver =>
          /\ trainer.batches = CeilDiv(Len(test.rows), BatchRows)
          /\ Len(preds_text) = Len(test.rows)
          /\ \A i \in DOMAIN preds_text :
                DOMAIN preds_text[i] = 0..(PRED_DIM - 1)
    /\ ThirteenSteps
    /\ FourBatches

C6_Witness ==
    /\ pc = "done"
    /\ trainer.steps >= 3
    /\ trainer.history[trainer.steps].rows < BatchRows
    /\ trainer.seen # [i \in DOMAIN trainer.seen |-> i]

\* C7: the short-review cell keeps exactly the rows with a text that has
\* four or more single spaces (five or more pieces), in their order, with
\* the index reset to 0..n-1 and the ten columns it started with
C7_ShortReviewFilter ==
    pc = "cleaned" =>
        LET before == Preprocessed.rows
            kept == Ascending({i \in DOMAIN before :
                        /\ ~before[i]["review_text"].isna
                        /\ NumSpaces(before[i]["review_text"].str) + 1 >= MIN_PIECES})
        IN  /\ Len(df.rows) = Len(kept)
            /\ \A k \in DOMAIN df.rows :
                  /\ DOMAIN df.rows[k] = Preprocessed.columns \cup {"index"}
                  /\ df.rows[k]["index"] = k - 1
                  /\ \A c \in Preprocessed.columns :
                        df.rows[k][c] = before[kept[k]][c]
            /\ df.columns = Preprocessed.columns
            /\ Cardinality(df.columns) = 10

C7_Witness ==
    /\ pc = "cleaned"
    /\ \E i \in DOMAIN raw.rows : raw.rows[i]["Review Text"].isna
    /\ \E i \in DOMAIN raw.rows :
          /\ ~raw.rows[i]["Review Text"].isna
          /\ NumSpaces(raw.rows[i]["Review Text"].str) = MIN_PIECES - 2
    /\ \E k \in DOMAIN df.rows :
          /\ NumSpaces(df.rows[k]["review_text"].str) = MIN_PIECES - 1
          /\ Len(Tokenize(df.rows[k]["review_text"].str)) < MIN_PIECES
    /\ \E k \in DOMAIN df.rows : df.rows[k]["index"] # df.rows[k]["clothing_id"] - 100

\* C8: train and test partition the subsampled dataframe, train has
\* floor(0.8 n) of its n rows (800 and 200 of 1000), every class is within
\* one row of its share in both, and only train rows are fitted on and only
\* test rows predicted
C8_StratifiedPartition ==
    /\ Len(train.rows) > 0 =>
          LET n == Len(df.rows)
              n_train == Len(train.rows)
              n_test == Len(test.rows)
          IN  /\ Ids(train) \cap Ids(test) = {}
              /\ Ids(train) \cup Ids(test) = Ids(df)
              /\ n_train + n_test = n
              /\ Cardinality(Ids(train)) = n_train
              /\ Cardinality(Ids(test)) = n_test
              /\ \A i \in DOMAIN train.rows :
                    \E j \in DOMAIN df.rows : train.rows[i] = df.rows[j]
              /\ \A i \in DOMAIN test.rows :
                    \E j \in DOMAIN df.rows : test.rows[i] = df.rows[j]
              /\ TRAIN_DEN * n_train <= TRAIN_NUM * n
              /\ TRAIN_NUM * n < TRAIN_DEN * (n_train + 1)
              /\ \A c \in Classes(df) :
                    /\ Abs(ClassCount(train, c) * n - n_train * ClassCount(df, c)) <= n
                    /\ Abs(ClassCount(test, c) * n - n_test * ClassCount(df, c)) <= n
              /\ Len(X_text_tr1) \in {0, n_train}
              /\ Len(X_text_tr2) \in {0, n_train}
              /\ Len(X_text_te1) \in {0, n_test}
              /\ Len(X_text_te2) \in {0, n_test}
              /\ pc \in {"fitting", "fitted", "predicted", "done"} =>
                    /\ fit_args.X_text = X_text_tr2
                    /\ Range(trainer.order) = DOMAIN train.rows
              /\ Len(preds_text) <= n_test
    /\ NTrain(N_SAMPLE) = 800
    /\ NTest(N_SAMPLE) = 200

C8_Witness ==
    /\ pc = "done"
    /\ Cardinality(Classes(df)) >= 2
    /\ \E c \in Classes(df) :
          (Len(train.rows) * ClassCount(df, c)) % Len(df.rows) # 0
    /\ \E c \in Classes(df) : ClassCount(train, c) # ClassCount(test, c) * 4

\* C9: the reviews without text are gone before the review length is
\* computed, so the lambda never meets a missing value, and no review
\* without text reaches the tokenizer
C9_NoMissingText ==
    /\ raised \notin {ATTRIBUTE_ERROR, TEXT_INPUT_ERROR}
    /\ pc \notin {"loaded", "preprocessed"} => ~HasNaN(df)
    /\ ~HasNaN(grouped)
    /\ ~HasNaN(train)
    /\ ~HasNaN(test)

C9_Witness ==
    /\ pc = "tokenized2"
    /\ \E i \in DOMAIN raw.rows : raw.rows[i]["Review Text"].isna
    /\ raw.rows[1]["Review Text"].isna \/ raw.rows[Len(raw.rows)]["Rating"] = 1

\* C10: from the remapping on every rating is the remapped original rating
\* of its row and lies in 0..pred_dim-1, in the dataframe, the targets of
\* fit and the true labels of the metrics; so does every predicted class
RatingOf(row) ==
    LET i == CHOOSE k \in DOMAIN raw.rows :
                 raw.rows[k]["Clothing ID"] = row["clothing_id"]
    IN  RemapRating(raw.rows[i]["Rating"])

Labelled(f) ==
    \A i \in DOMAIN f.rows :
        /\ f.rows[i]["rating"] \in 0..(PRED_DIM - 1)
        /\ f.rows[i]["rating"] = RatingOf(f.rows[i])

C10_LabelsWithinPredDim ==
    /\ pc # "loaded" => Labelled(df)
    /\ Labelled(grouped)
    /\ Labelled(train)
    /\ Labelled(test)
    /\ ModelBuilt =>
          /\ model.pred_dim = PRED_DIM
          /\ \A i \in DOMAIN fit_args.target :
                fit_args.target[i] \in 0..(model.pred_dim - 1)
    /\ \A i \in DOMAIN pred_text_class : pred_text_class[i] \in 0..(PRED_DIM - 1)
    /\ raised # TARGET_ERROR
    /\ pc = "done" => acc_text.total = Len(test.rows)

C10_Witness ==
    /\ pc = "done"
    /\ \E i, j \in DOMAIN fit_args.target :
          fit_args.target[i] = 0 /\ fit_args.target[j] = PRED_DIM - 1
    /\ \E i \in DOMAIN test.rows : test.rows[i]["rating"] = PRED_DIM - 1
    /\ Len(pred_text_class) = Len(test.rows)
====
